---- MODULE Spec2Model ----
(***************************************************************************)
(* State-machine model of pyvx/backend.py: Image format inference          *)
(* (ensure_shape, suggest_color, ensure_color, ensure_similar), the        *)
(* "current graph" context (Graph.__enter__/__exit__), Node construction   *)
(* (Node.setup, Node.do_verify and the node kinds' verify()), and          *)
(* Graph.verify() with Graph.schedule() and Graph.compile().               *)
(*                                                                         *)
(* The specifications share the variables:                                 *)
(*   Spec     one Graph; nodes are constructed over a fixed set of Images  *)
(*            and graph.verify() is called.                                *)
(*   SpecFmt  the Image format operators applied directly to Images.       *)
(*   SpecCtx  sequences of Graph.__enter__/__exit__ on several graphs.     *)
(*   SpecBind the producer binding of Node.setup.                          *)
(*   SpecAddr Image.getitem2d / getitem1d address resolution.              *)
(*   SpecFuse two elementwise nodes run as separate loops and fused.       *)
(*   SpecSched, SpecSchedFair  Graph.schedule() one loop iteration a step. *)
(*   SpecProc one MultiplyNode: graph.verify(), then process().            *)
(***************************************************************************)
EXTENDS Integers, Sequences, FiniteSets, TLC

\* ------------------------------------------------------------- bounds
NImages == 4
MaxDim == 2
MaxNodes == 3
MaxSpecial == 1
MaxVerify == 1
MaxLateNodes == 0
MaxBindNodes == 2
NGraphs == 2
MaxCtxOps == 4
MaxAddrDim == 5
MaxOver == 1
NValues == 2
MaxSchedNodes == 3
ProcDim == 4

\* self.producer = None, Graph.current_graph = None
NoNode == 0
NoGraph == 0

ImageIds == 1..NImages
GraphIds == 1..NGraphs
Dims == 0..MaxDim

VARIABLES
    img,            \* image id -> [width, height, color, virtual, producer]
    nodes,          \* Graph.nodes: sequence of node records
    early_verify,   \* Graph.early_verify
    compiled_func,  \* Graph.compiled_func: 0 (unset) or the verify() call that set it
    calls,          \* number of graph.verify() calls made
    late,           \* number of nodes constructed after a graph.verify() call
    verified,       \* identities of the nodes whose do_verify() has returned
    result,         \* outcome of the last Node(...) or graph.verify() call
    log,            \* steps taken by the last graph.verify() call, in order
    last,           \* outcome of the last direct Image format call (SpecFmt)
    current_graph,  \* Graph.current_graph
    ctxlog,         \* enter/exit calls made so far, with their outcome (SpecCtx)
    access,         \* the pixel access to resolve, then what it resolved to (SpecAddr)
    fusion,         \* two elementwise nodes, the buffers of their separate and of
                    \* their fused execution, and how far these went (SpecFuse)
    sched,          \* the locals of a running Graph.schedule() call and where it
                    \* stands (SpecSched)
    proc            \* a one-node elementwise graph, its buffers and how far its
                    \* verify() and process() went (SpecProc)

vars == <<img, nodes, early_verify, compiled_func, calls, late, verified, result,
          log, last, current_graph, ctxlog, access, fusion, sched, proc>>

SeqToSet(s) == {s[k] : k \in DOMAIN s}

\* ------------------------------------------------------------- colors
Colors == {"VIRT", "U8", "S16", "RGB"}

\* color.items: channels per pixel of a format descriptor
Items(color) ==
    CASE color = "U8" -> 1
      [] color = "S16" -> 1
      [] color = "RGB" -> 3
      [] color = "IYUV" -> 3
      [] OTHER -> 0

\* ------------------------------------------------------------- Image
\* Image.ensure_shape that undoes its filling on failure by resetting both
\* dimensions to "unresolved".
ensure_shape_reset(im, width, height) ==
    LET w1 == IF im.width = 0 THEN width ELSE im.width
        h1 == IF im.height = 0 THEN height ELSE im.height
        bad == w1 # width \/ h1 # height
    IN  [image |-> IF bad THEN [im EXCEPT !.width = 0, !.height = 0]
                          ELSE [im EXCEPT !.width = w1, !.height = h1],
         ok |-> ~bad]

\* Image.ensure_shape that raises only when both dimensions differ.
ensure_shape_and(im, width, height) ==
    LET w1 == IF im.width = 0 THEN width ELSE im.width
        h1 == IF im.height = 0 THEN height ELSE im.height
    IN  [image |-> [im EXCEPT !.width = w1, !.height = h1],
         ok |-> ~(w1 # width /\ h1 # height)]

\* Image.ensure_shape(width, height); ok = FALSE stands for InvalidFormatError.
\* The dimensions are filled in before the comparison, so they stay filled
\* when the call raises.
ensure_shape(im, width, height) ==
    LET w1 == IF im.width = 0 THEN width ELSE im.width
        h1 == IF im.height = 0 THEN height ELSE im.height
    IN  [image |-> [im EXCEPT !.width = w1, !.height = h1],
         ok |-> ~(w1 # width \/ h1 # height)]

\* Image.suggest_color
suggest_color(im, color) ==
    IF im.color = "VIRT" THEN [im EXCEPT !.color = color] ELSE im

\* Image.ensure_color
ensure_color(im, color) ==
    LET im1 == suggest_color(im, color)
    IN  [image |-> im1, ok |-> ~(im1.color # color)]

\* Image.ensure_similar(image): ensure_shape(image), suggest_color(image.color),
\* then the item counts are compared.
ensure_similar(im, other) ==
    LET s == ensure_shape(im, other.width, other.height)
        im2 == suggest_color(s.image, other.color)
    IN  IF ~s.ok THEN s
        ELSE [image |-> im2, ok |-> ~(Items(im2.color) # Items(other.color))]

\* ------------------------------------------------------------- Node
\* Names of the exceptions the calls end with ("none": the call returned).
MultipleWriters == "MultipleWritersError"
BidirVirtual == "InvalidGraphError: Bidirection data cant be virtual."
CyclicGraph == "InvalidGraphError: Loops not allowed in the graph."
VirtualNeverProduced == "InvalidGraphError: Virtual data never produced."
UnresolvedFormat == "InvalidFormatError: FOURCC_VIRT not resolved into specific type."
InvalidFormat == "InvalidFormatError"
NoCompileMethod == "AttributeError: compile"

\* Node.__init__ for the signatures "in input, out output",
\* "in input, out output_x, out output_y" and "in input, inout accum".
Gaussian3x3Node(i, o) ==
    [kind |-> "Gaussian3x3", inputs |-> <<i>>, outputs |-> <<o>>, inouts |-> <<>>]
Sobel3x3Node(i, ox, oy) ==
    [kind |-> "Sobel3x3", inputs |-> <<i>>, outputs |-> <<ox, oy>>, inouts |-> <<>>]
AccumulateImageNode(i, a) ==
    [kind |-> "AccumulateImage", inputs |-> <<i>>, outputs |-> <<>>, inouts |-> <<a>>]

\* self.outputs + self.inouts
Writes(n) == n.outputs \o n.inouts

\* Gaussian3x3Node.verify
verify_Gaussian3x3(n, imgs) ==
    LET i == n.inputs[1]
        o == n.outputs[1]
        r == ensure_similar(imgs[o], imgs[i])
    IN  IF Items(imgs[i].color) # 1
        THEN [images |-> imgs, err |-> InvalidFormat, called |-> TRUE]
        ELSE [images |-> [imgs EXCEPT ![o] = r.image],
              err |-> IF r.ok THEN "none" ELSE InvalidFormat, called |-> TRUE]

\* Sobel3x3Node.verify
verify_Sobel3x3(n, imgs) ==
    LET i == n.inputs[1]
        ox == n.outputs[1]
        oy == n.outputs[2]
        rx == ensure_similar(imgs[ox], imgs[i])
        imgs1 == [imgs EXCEPT ![ox] = rx.image]
        ry == ensure_similar(imgs1[oy], imgs1[i])
    IN  IF Items(imgs[i].color) # 1
        THEN [images |-> imgs, err |-> InvalidFormat, called |-> TRUE]
        ELSE IF ~rx.ok THEN [images |-> imgs1, err |-> InvalidFormat, called |-> TRUE]
        ELSE [images |-> [imgs1 EXCEPT ![oy] = ry.image],
              err |-> IF ry.ok THEN "none" ELSE InvalidFormat, called |-> TRUE]

\* AccumulateImageNode.verify: pass
verify_AccumulateImage(n, imgs) == [images |-> imgs, err |-> "none", called |-> TRUE]

\* self.verify(), dispatched on the node's class (called: a verify() ran)
verify(n, imgs) ==
    CASE n.kind = "Gaussian3x3" -> verify_Gaussian3x3(n, imgs)
      [] n.kind = "Sobel3x3" -> verify_Sobel3x3(n, imgs)
      [] OTHER -> verify_AccumulateImage(n, imgs)

\* Node.do_verify without the single-writer check.
do_verify_nowriter(n, imgs) ==
    IF \E k \in DOMAIN n.inouts : imgs[n.inouts[k]].virtual
    THEN [images |-> imgs, err |-> BidirVirtual, called |-> FALSE]
    ELSE IF \E k \in DOMAIN n.inputs :
                imgs[n.inputs[k]].width = 0 \/ imgs[n.inputs[k]].height = 0
    THEN [images |-> imgs, err |-> InvalidFormat, called |-> FALSE]
    ELSE verify(n, imgs)

\* Node.do_verify without the test of the input shapes.
do_verify_noshape(n, imgs) ==
    IF \E k \in DOMAIN Writes(n) : imgs[Writes(n)[k]].producer # n.id
    THEN [images |-> imgs, err |-> MultipleWriters, called |-> FALSE]
    ELSE IF \E k \in DOMAIN n.inouts : imgs[n.inouts[k]].virtual
    THEN [images |-> imgs, err |-> BidirVirtual, called |-> FALSE]
    ELSE verify(n, imgs)

\* Node.do_verify: single writer, bidirectional data not virtual, input
\* shapes resolved, then the node's own verify() (called: verify() was
\* invoked).
do_verify(n, imgs) ==
    IF \E k \in DOMAIN Writes(n) : imgs[Writes(n)[k]].producer # n.id
    THEN [images |-> imgs, err |-> MultipleWriters, called |-> FALSE]
    ELSE IF \E k \in DOMAIN n.inouts : imgs[n.inouts[k]].virtual
    THEN [images |-> imgs, err |-> BidirVirtual, called |-> FALSE]
    ELSE IF \E k \in DOMAIN n.inputs :
                imgs[n.inputs[k]].width = 0 \/ imgs[n.inputs[k]].height = 0
    THEN [images |-> imgs, err |-> InvalidFormat, called |-> FALSE]
    ELSE verify(n, imgs)

\* The producer loop of Node.setup with the "is None" test dropped.
set_producers_overwrite(n, imgs) ==
    [d \in ImageIds |->
        IF d \in SeqToSet(Writes(n))
        THEN [imgs[d] EXCEPT !.producer = n.id] ELSE imgs[d]]

\* The producer loop of Node.setup: d.producer = self where it is None.
set_producers(n, imgs) ==
    [d \in ImageIds |->
        IF d \in SeqToSet(Writes(n)) /\ imgs[d].producer = NoNode
        THEN [imgs[d] EXCEPT !.producer = n.id] ELSE imgs[d]]

\* What a do_verify() call of node n on the images imgs met and did, ver
\* being the nodes verified before it: the producers of its inputs not among
\* them, whether an input had a zero dimension, whether an image it writes
\* had another producer, whether an inout was virtual, whether verify() was
\* invoked.
Run(n, imgs, ver, r) ==
    [id |-> n.id,
     pending |-> {imgs[n.inputs[k]].producer : k \in DOMAIN n.inputs}
                     \ (ver \cup {NoNode}),
     unresolved |-> \E k \in DOMAIN n.inputs :
                        imgs[n.inputs[k]].width = 0 \/ imgs[n.inputs[k]].height = 0,
     otherwriter |-> \E k \in DOMAIN Writes(n) : imgs[Writes(n)[k]].producer # n.id,
     bidirvirtual |-> \E k \in DOMAIN n.inouts : imgs[n.inouts[k]].virtual,
     called |-> r.called, err |-> r.err]

\* Node.setup that never verifies at construction.
setup_verify_never(n, imgs, early) ==
    [images |-> imgs, err |-> "none", runs |-> <<>>]

\* Node.setup that verifies at construction whatever the graph's mode.
setup_verify_always(n, imgs, early) ==
    CHOOSE s \in {[images |-> r.images, err |-> r.err,
                   runs |-> <<Run(n, imgs, verified, r)>>] :
                      r \in {do_verify(n, imgs)}} : TRUE

\* The tail of Node.setup: do_verify() when the graph verifies early.
setup_verify(n, imgs, early) ==
    IF early
    THEN CHOOSE s \in {[images |-> r.images, err |-> r.err,
                        runs |-> <<Run(n, imgs, verified, r)>>] :
                           r \in {do_verify(n, imgs)}} : TRUE
    ELSE [images |-> imgs, err |-> "none", runs |-> <<>>]

\* ------------------------------------------------------------- Graph
\* The readiness test of Graph.schedule that ignores the inputs.
Ready_always(n, present) == TRUE

\* all(present[d] for d in n.inputs)
Ready(n, present) == \A k \in DOMAIN n.inputs : present[n.inputs[k]]

\* The initial availability of Graph.schedule without the loop over the
\* nodes' outputs and inouts.
InitialPresent_nowrites(ns, imgs) == [d \in ImageIds |-> ~imgs[d].virtual]

\* present[d] = not d.virtual for the images, then present[d] = False for
\* every output and inout of every node.
InitialPresent(ns, imgs) ==
    [d \in ImageIds |->
        IF \E k \in DOMAIN ns : d \in SeqToSet(Writes(ns[k]))
        THEN FALSE ELSE ~imgs[d].virtual]

\* for d in n.outputs: present[d] = True
MarkOutputs(n, present) ==
    [d \in ImageIds |-> present[d] \/ d \in SeqToSet(n.outputs)]

\* One pass of the while loop of Graph.schedule over worklist[k..].
RECURSIVE SchedulePass(_, _, _, _, _)
SchedulePass(worklist, k, present, inorder, remaining) ==
    IF k > Len(worklist)
    THEN [present |-> present, inorder |-> inorder, remaining |-> remaining]
    ELSE IF Ready(worklist[k], present)
    THEN SchedulePass(worklist, k + 1, MarkOutputs(worklist[k], present),
                      Append(inorder, worklist[k]), remaining)
    ELSE SchedulePass(worklist, k + 1, present, inorder,
                      Append(remaining, worklist[k]))

RECURSIVE ScheduleLoop(_, _, _)
\* The while loop of Graph.schedule that returns what it has scheduled when a
\* pass schedules nothing.
ScheduleLoop_partial(worklist, present, inorder) ==
    IF worklist = <<>> THEN [ok |-> TRUE, order |-> inorder]
    ELSE LET p == SchedulePass(worklist, 1, present, inorder, <<>>)
         IN  IF Len(worklist) = Len(p.remaining)
             THEN [ok |-> TRUE, order |-> inorder]
             ELSE ScheduleLoop(p.remaining, p.present, p.inorder)

\* The while loop of Graph.schedule; ok = FALSE stands for
\* InvalidGraphError("Loops not allowed in the graph.").
ScheduleLoop(worklist, present, inorder) ==
    IF worklist = <<>> THEN [ok |-> TRUE, order |-> inorder]
    ELSE LET p == SchedulePass(worklist, 1, present, inorder, <<>>)
         IN  IF Len(worklist) = Len(p.remaining)
             THEN [ok |-> FALSE, order |-> <<>>]
             ELSE ScheduleLoop(p.remaining, p.present, p.inorder)

\* Graph.schedule with a single pass over the worklist ("if worklist" for
\* "while worklist").
schedule_onepass(ns, imgs) ==
    [ok |-> TRUE,
     order |-> SchedulePass(ns, 1, InitialPresent(ns, imgs), <<>>, <<>>).inorder]

\* Graph.schedule
schedule(ns, imgs) == ScheduleLoop(ns, InitialPresent(ns, imgs), <<>>)

\* self.images: the Images among the data objects of the graph's nodes
GraphImages(ns) ==
    UNION {SeqToSet(ns[k].inputs \o ns[k].outputs \o ns[k].inouts) : k \in DOMAIN ns}

\* The loop "Virtual data produced" of Graph.verify runs over a set, in no
\* fixed order: the exceptions it can end with, one per offending image.
CheckErrors(ns, imgs) ==
    {IF imgs[d].virtual /\ imgs[d].producer = NoNode
        THEN VirtualNeverProduced ELSE UnresolvedFormat :
     d \in {e \in GraphImages(ns) :
                \/ imgs[e].virtual /\ imgs[e].producer = NoNode
                \/ imgs[e].color = "VIRT"}}

\* The node classes that define compile(); Sobel3x3Node and
\* AccumulateImageNode inherit none from Node.
HasCompile(n) == n.kind = "Gaussian3x3"

Event(ev, n) == [ev |-> ev, node |-> n]

\* "for node in self.nodes: node.do_verify()" from position k on (r: what
\* the do_verify() of node k returned, evaluated once)
RECURSIVE VerifyNodes(_, _, _, _, _, _)
VerifyNodes(order, k, imgs, lg, ver, runs) ==
    IF k > Len(order)
    THEN [images |-> imgs, err |-> "none", log |-> lg, ver |-> ver, runs |-> runs]
    ELSE CHOOSE v \in
             {IF r.err # "none"
              THEN [images |-> r.images, err |-> r.err,
                    log |-> Append(lg, Event("do_verify", order[k].id)), ver |-> ver,
                    runs |-> Append(runs, Run(order[k], imgs, ver, r))]
              ELSE VerifyNodes(order, k + 1, r.images,
                               Append(lg, Event("do_verify", order[k].id)),
                               ver \cup {order[k].id},
                               Append(runs, Run(order[k], imgs, ver, r))) :
                  r \in {do_verify(order[k], imgs)}} : TRUE

\* "for n in self.nodes: n.compile(code)" from position k on
RECURSIVE CompileNodes(_, _, _)
CompileNodes(order, k, lg) ==
    IF k > Len(order) THEN [err |-> "none", log |-> lg]
    ELSE IF ~HasCompile(order[k]) THEN [err |-> NoCompileMethod, log |-> lg]
    ELSE CompileNodes(order, k + 1, Append(lg, Event("compile", order[k].id)))

\* Graph.compile: allocation, the nodes' compile() in the order of self.nodes,
\* then the native compiler sets compiled_func.
compile(order, lg) ==
    LET c == CompileNodes(order, 1, Append(lg, Event("alloc", NoNode)))
    IN  IF c.err # "none" THEN c
        ELSE [err |-> "none", log |-> Append(c.log, Event("compiled_func", NoNode))]

\* Graph.verify that goes on to compile() whatever the graph-level checks say.
verify_tail_unchecked(order, imgs, lg, errs) == compile(order, lg)

\* Graph.verify after the do_verify loop: the graph-level checks, ending
\* with one of the exceptions errs when there is any, then compile().
verify_tail(order, imgs, lg, errs) ==
    IF errs # {} THEN [err |-> CHOOSE e \in errs : TRUE, log |-> lg]
    ELSE compile(order, lg)

NodeResult(id, err, runs) ==
    [op |-> "Node", id |-> id, err |-> err, scheduled |-> FALSE,
     before |-> <<>>, order |-> <<>>, runs |-> runs]

VerifyResult(err, scheduled, before, order, runs) ==
    [op |-> "verify", id |-> NoNode, err |-> err, scheduled |-> scheduled,
     before |-> before, order |-> order, runs |-> runs]

Special(n) == n.kind # "Gaussian3x3"

\* Node(graph, ...) that takes the node off the graph again, and gives up its
\* producer bindings, when its verification at construction raises.
NodeCreate_rollback(n0) ==
    /\ Len(nodes) < MaxNodes
    /\ calls > 0 => late < MaxLateNodes
    /\ late' = IF calls > 0 THEN late + 1 ELSE late
    /\ Special(n0) => Cardinality({k \in DOMAIN nodes : Special(nodes[k])}) < MaxSpecial
    /\ \E n \in {[id |-> Len(nodes) + 1, kind |-> n0.kind, inputs |-> n0.inputs,
                    outputs |-> n0.outputs, inouts |-> n0.inouts]} :
          \E r \in {setup_verify(n, set_producers(n, img), early_verify)} :
              /\ nodes' = IF r.err = "none" THEN Append(nodes, n) ELSE nodes
              /\ img' = IF r.err = "none" THEN r.images ELSE img
              /\ result' = NodeResult(n.id, r.err, r.runs)
              /\ verified' = IF r.runs # <<>> /\ r.err = "none"
                              THEN verified \cup {n.id} ELSE verified
    /\ UNCHANGED <<early_verify, compiled_func, calls, log, last, current_graph, ctxlog,
                   access, fusion, sched, proc>>

\* Node(graph, ...): __init__ binds the arguments, setup() registers the node
\* (Graph._add_node), makes it producer and verifies it when the graph is eager.
NodeCreate(n0) ==
    /\ Len(nodes) < MaxNodes
    /\ calls > 0 => late < MaxLateNodes
    /\ late' = IF calls > 0 THEN late + 1 ELSE late
    /\ Special(n0) => Cardinality({k \in DOMAIN nodes : Special(nodes[k])}) < MaxSpecial
    /\ \E n \in {[id |-> Len(nodes) + 1, kind |-> n0.kind, inputs |-> n0.inputs,
                    outputs |-> n0.outputs, inouts |-> n0.inouts]} :
          \E r \in {setup_verify(n, set_producers(n, img), early_verify)} :
              /\ nodes' = Append(nodes, n)
              /\ img' = r.images
              /\ result' = NodeResult(n.id, r.err, r.runs)
              /\ verified' = IF r.runs # <<>> /\ r.err = "none"
                              THEN verified \cup {n.id} ELSE verified
    /\ UNCHANGED <<early_verify, compiled_func, calls, log, last, current_graph, ctxlog,
                   access, fusion, sched, proc>>

CreateGaussian3x3 ==
    \E i \in ImageIds, o \in ImageIds : NodeCreate(Gaussian3x3Node(i, o))

CreateSobel3x3 ==
    \E i \in ImageIds, ox \in ImageIds, oy \in ImageIds :
        NodeCreate(Sobel3x3Node(i, ox, oy))

CreateAccumulateImage ==
    \E i \in ImageIds, a \in ImageIds : NodeCreate(AccumulateImageNode(i, a))

\* graph.verify(): schedule(), do_verify() of every node in the scheduled
\* order, the graph-level checks, compile().  An exception leaves what was
\* assigned before it.
Verify ==
    /\ calls < MaxVerify
    /\ calls' = calls + 1
    /\ \E s \in {schedule(nodes, img)} :
          IF ~s.ok
          THEN /\ result' = VerifyResult(CyclicGraph, FALSE, nodes, <<>>, <<>>)
               /\ log' = <<Event("schedule", NoNode)>>
               /\ UNCHANGED <<img, nodes, compiled_func, verified>>
          ELSE \E v \in {VerifyNodes(s.order, 1, img, <<Event("schedule", NoNode)>>,
                                      verified, <<>>)} :
                  /\ nodes' = s.order
                  /\ img' = v.images
                  /\ verified' = v.ver
                  /\ IF v.err # "none"
                     THEN /\ result' = VerifyResult(v.err, TRUE, nodes, s.order, v.runs)
                          /\ log' = v.log
                          /\ UNCHANGED compiled_func
                     ELSE \E ce \in {CheckErrors(s.order, v.images)} :
                          \E errs \in (IF ce = {} THEN {{}} ELSE {{e} : e \in ce}) :
                          \E t \in {verify_tail(s.order, v.images,
                                                Append(v.log, Event("checks", NoNode)),
                                                errs)} :
                              /\ result' = VerifyResult(t.err, TRUE, nodes, s.order,
                                                        v.runs)
                              /\ log' = t.log
                              /\ compiled_func' =
                                     IF t.err = "none" THEN calls + 1 ELSE compiled_func
    /\ UNCHANGED <<early_verify, late, last, current_graph, ctxlog, access, fusion,
                   sched, proc>>

\* Images as the program constructs them
ExternalImage == [width |-> 2, height |-> 2, color |-> "U8", virtual |-> FALSE,
                  producer |-> NoNode]
VirtualImage == [width |-> 0, height |-> 0, color |-> "VIRT", virtual |-> TRUE,
                 producer |-> NoNode]
UnshapedImage == [width |-> 0, height |-> 0, color |-> "U8", virtual |-> FALSE,
                  producer |-> NoNode]
ForcedImage == [width |-> 0, height |-> 0, color |-> "VIRT", virtual |-> FALSE,
                producer |-> NoNode]

\* The Images the nodes are constructed over: an externally backed source, a
\* non-virtual image without shape, a virtual image, and a virtual image
\* after force().
InitialImage(d) ==
    CASE d = 1 -> ExternalImage
      [] d = 2 -> UnshapedImage
      [] d = 4 -> ForcedImage
      [] OTHER -> VirtualImage

NoCall == [op |-> "none"]
NoAccess == [rank |-> 0]
NoFusion == [pc |-> 0]
NoSched == [pc |-> "none"]
NoProc == [pc |-> "none"]

Init ==
    /\ img = [d \in ImageIds |-> InitialImage(d)]
    /\ nodes = <<>>
    /\ early_verify \in BOOLEAN
    /\ compiled_func = 0
    /\ calls = 0
    /\ late = 0
    /\ verified = {}
    /\ result = NoCall
    /\ log = <<>>
    /\ last = NoCall
    /\ current_graph = NoGraph
    /\ ctxlog = <<>>
    /\ access = NoAccess
    /\ fusion = NoFusion
    /\ sched = NoSched
    /\ proc = NoProc

Next ==
    \/ CreateGaussian3x3
    \/ CreateSobel3x3
    \/ CreateAccumulateImage
    \/ Verify

Spec == Init /\ [][Next]_vars

\* ------------------------------------------------------------- SpecBind
\* Node.__init__ called with any positional and keyword arguments.
TypeErrorMultiple == "TypeError: Got multiple values for keyword argument"
TypeErrorMissing == "TypeError: Required argument missing"
TypeErrorDirection == "TypeError: Bad direction"

\* signature.split(','), each entry after strip().split(' ').  MisdirectedNode
\* stands for a Node subclass whose signature declares a direction other
\* than in, out and inout.
Signature(kind) ==
    CASE kind = "Gaussian3x3" -> << <<"in", "input">>, <<"out", "output">> >>
      [] kind = "Sobel3x3" ->
             << <<"in", "input">>, <<"out", "output_x">>, <<"out", "output_y">> >>
      [] kind = "AccumulateImage" -> << <<"in", "input">>, <<"inout", "accum">> >>
      [] OTHER -> << <<"in", "input">>, <<"output", "output">> >>

\* direction, name = v[0], v[-1]
Direction(v) == v[1]
Name(v) == v[Len(v)]

\* The binding of one parameter that lets a positional argument win over a
\* keyword argument of the same name.
BindValue_nodup(v, i, args, kwargs) ==
    IF i <= Len(args) THEN [err |-> "none", val |-> args[i]]
    ELSE IF Name(v) \in DOMAIN kwargs THEN [err |-> "none", val |-> kwargs[Name(v)]]
    ELSE [err |-> TypeErrorMissing, val |-> 0]

\* The value bound to the i-th parameter v of the signature (i counts from 1)
BindValue(v, i, args, kwargs) ==
    IF i <= Len(args)
    THEN IF Name(v) \in DOMAIN kwargs
         THEN [err |-> TypeErrorMultiple, val |-> 0]
         ELSE [err |-> "none", val |-> args[i]]
    ELSE IF Name(v) \in DOMAIN kwargs THEN [err |-> "none", val |-> kwargs[Name(v)]]
    ELSE [err |-> TypeErrorMissing, val |-> 0]

\* The loop of Node.__init__ over the signature from parameter i on; n holds
\* the inputs, outputs and inouts bound so far.
RECURSIVE BindFrom(_, _, _, _, _)
BindFrom(sig, i, args, kwargs, n) ==
    IF i > Len(sig) THEN [err |-> "none", node |-> n]
    ELSE LET b == BindValue(sig[i], i, args, kwargs)
             direction == Direction(sig[i])
         IN  IF b.err # "none" THEN [err |-> b.err, node |-> n]
             ELSE IF direction = "in"
             THEN BindFrom(sig, i + 1, args, kwargs,
                           [n EXCEPT !.inputs = Append(@, b.val)])
             ELSE IF direction = "out"
             THEN BindFrom(sig, i + 1, args, kwargs,
                           [n EXCEPT !.outputs = Append(@, b.val)])
             ELSE IF direction = "inout"
             THEN BindFrom(sig, i + 1, args, kwargs,
                           [n EXCEPT !.inouts = Append(@, b.val)])
             ELSE [err |-> TypeErrorDirection, node |-> n]

\* Node.__init__ up to the call of setup()
Bind(kind, args, kwargs) ==
    BindFrom(Signature(kind), 1, args, kwargs,
             [kind |-> kind, inputs |-> <<>>, outputs |-> <<>>, inouts |-> <<>>])

\* Node(graph, *args, **kwargs): a TypeError of the binding leaves __init__
\* before setup(); otherwise the node is set up as in NodeCreate.
NodeInit(kind, args, kwargs) ==
    LET b == Bind(kind, args, kwargs)
    IN  IF b.err # "none"
        THEN /\ result' = NodeResult(NoNode, b.err, <<>>)
             /\ UNCHANGED <<img, nodes, early_verify, compiled_func, calls, late,
                            verified, log, last, current_graph, ctxlog, access,
                            fusion, sched, proc>>
        ELSE Len(nodes) < MaxBindNodes /\ NodeCreate(b.node)

\* The node classes and the images of the calls; the positional arguments
\* and the keyword arguments (by parameter name) a call can pass
BindKinds == {"Gaussian3x3", "AccumulateImage", "Misdirected"}
BindIds == {1, 3}

BindArgs(kind) ==
    UNION {[1..m -> BindIds] : m \in 0..Len(Signature(kind))}

BindKwargs(kind) ==
    UNION {[S -> BindIds] :
               S \in SUBSET {Name(Signature(kind)[i]) : i \in DOMAIN Signature(kind)}}

Construct ==
    \E kind \in BindKinds :
        \E args \in BindArgs(kind), kwargs \in BindKwargs(kind) :
            NodeInit(kind, args, kwargs)

NextBind == Construct

SpecBind == Init /\ [][NextBind]_vars

\* ------------------------------------------------------------- SpecFmt
\* The Images of the format calls (FmtTargets: the Images the calls are made
\* on; the others serve as argument of ensure_similar), and the shapes and
\* colors an Image can be constructed with.
FmtIds == {1, 2}
FmtTargets == {1}

FmtImages ==
    [width : Dims, height : Dims, color : Colors, virtual : {FALSE},
     producer : {NoNode}]

FmtResult(op, tgt, arg, ok) ==
    [op |-> op, tgt |-> tgt, arg |-> arg, ok |-> ok, pre |-> img[tgt],
     repeat |-> last.op = op /\ last.tgt = tgt /\ last.arg = arg,
     prevOk |-> IF last.op = "none" THEN TRUE ELSE last.ok]

FmtFrame ==
    UNCHANGED <<nodes, early_verify, compiled_func, calls, late, verified, result,
                log, current_graph, ctxlog, access, fusion, sched, proc>>

\* img.ensure_shape(width, height)
EnsureShape ==
    \E d \in FmtTargets, w \in Dims, h \in Dims :
        LET r == ensure_shape(img[d], w, h)
        IN  /\ img' = [img EXCEPT ![d] = r.image]
            /\ last' = FmtResult("ensure_shape", d, <<w, h>>, r.ok)
            /\ FmtFrame

\* img.suggest_color(color)
SuggestColor ==
    \E d \in FmtTargets, c \in Colors :
        /\ img' = [img EXCEPT ![d] = suggest_color(img[d], c)]
        /\ last' = FmtResult("suggest_color", d, c, TRUE)
        /\ FmtFrame

\* img.ensure_color(color)
EnsureColor ==
    \E d \in FmtTargets, c \in Colors :
        LET r == ensure_color(img[d], c)
        IN  /\ img' = [img EXCEPT ![d] = r.image]
            /\ last' = FmtResult("ensure_color", d, c, r.ok)
            /\ FmtFrame

\* img.ensure_similar(image)
EnsureSimilar ==
    \E d \in FmtTargets, o \in FmtIds :
        LET r == ensure_similar(img[d], img[o])
        IN  /\ img' = [img EXCEPT ![d] = r.image]
            /\ last' = FmtResult("ensure_similar", d, o, r.ok)
            /\ FmtFrame

InitFmt ==
    /\ \E f \in [FmtIds -> FmtImages] :
           img = [d \in ImageIds |-> IF d \in FmtIds THEN f[d] ELSE VirtualImage]
    /\ nodes = <<>>
    /\ early_verify = TRUE
    /\ compiled_func = 0
    /\ calls = 0
    /\ late = 0
    /\ verified = {}
    /\ result = NoCall
    /\ log = <<>>
    /\ last = NoCall
    /\ current_graph = NoGraph
    /\ ctxlog = <<>>
    /\ access = NoAccess
    /\ fusion = NoFusion
    /\ sched = NoSched
    /\ proc = NoProc

NextFmt ==
    \/ EnsureShape
    \/ SuggestColor
    \/ EnsureColor
    \/ EnsureSimilar

SpecFmt == InitFmt /\ [][NextFmt]_vars

\* ------------------------------------------------------------- SpecCtx
CtxFrame ==
    UNCHANGED <<img, nodes, early_verify, compiled_func, calls, late, verified, result,
                log, last, access, fusion, sched, proc>>

CtxCall(op, g, ok) == [op |-> op, graph |-> g, ok |-> ok, before |-> current_graph]

\* Graph.__enter__ that takes over whatever graph is current.
enter_noassert(cur, g) == [ok |-> TRUE, current |-> g]

\* Graph.__enter__: assert Graph.current_graph is None; ok = FALSE stands for
\* the AssertionError.
enter(cur, g) ==
    IF cur = NoGraph THEN [ok |-> TRUE, current |-> g]
    ELSE [ok |-> FALSE, current |-> cur]

\* Graph.__exit__: assert Graph.current_graph is self
exit(cur, g) ==
    IF cur = g THEN [ok |-> TRUE, current |-> NoGraph]
    ELSE [ok |-> FALSE, current |-> cur]

Enter ==
    \E g \in GraphIds :
        /\ Len(ctxlog) < MaxCtxOps
        /\ current_graph' = enter(current_graph, g).current
        /\ ctxlog' = Append(ctxlog, CtxCall("enter", g, enter(current_graph, g).ok))
        /\ CtxFrame

Exit ==
    \E g \in GraphIds :
        /\ Len(ctxlog) < MaxCtxOps
        /\ current_graph' = exit(current_graph, g).current
        /\ ctxlog' = Append(ctxlog, CtxCall("exit", g, exit(current_graph, g).ok))
        /\ CtxFrame

InitCtx ==
    /\ img = [d \in ImageIds |-> InitialImage(d)]
    /\ nodes = <<>>
    /\ early_verify = TRUE
    /\ compiled_func = 0
    /\ calls = 0
    /\ late = 0
    /\ verified = {}
    /\ result = NoCall
    /\ log = <<>>
    /\ last = NoCall
    /\ current_graph = NoGraph
    /\ ctxlog = <<>>
    /\ access = NoAccess
    /\ fusion = NoFusion
    /\ sched = NoSched
    /\ proc = NoProc

NextCtx == Enter \/ Exit

SpecCtx == InitCtx /\ [][NextCtx]_vars

\* ------------------------------------------------------------- SpecAddr
\* The address resolvers Image.getitem2d and Image.getitem1d: the value of
\* the C index expression they emit, for the values x, y and idx of the
\* expressions the access was written with.
NotImplemented == "NotImplementedError"
MultiChannel == "InvalidFormatError: Cant access pixel of multi channel image without specifying channel."

\* The channels of a format descriptor, the offset of a channel within a
\* pixel and the name of the C function that subsamples its index ("" when
\* the channel is not subsampled)
Channels(color) ==
    CASE color = "U8" -> {"CHANNEL_0"}
      [] color = "RGB" -> {"CHANNEL_R", "CHANNEL_G", "CHANNEL_B"}
      [] color = "IYUV" -> {"CHANNEL_Y", "CHANNEL_U", "CHANNEL_V"}
      [] OTHER -> {}

Offset(color, channel) ==
    CASE channel \in {"CHANNEL_G", "CHANNEL_U"} -> 1
      [] channel \in {"CHANNEL_B", "CHANNEL_V"} -> 2
      [] OTHER -> 0

Subsamp(color, channel) ==
    IF color = "IYUV" /\ channel \in {"CHANNEL_U", "CHANNEL_V"} THEN "subsample" ELSE ""

\* long clamp(long val, long min_val, long max_val)
clamp(val, min_val, max_val) ==
    IF val < min_val THEN min_val
    ELSE IF val > max_val THEN max_val
    ELSE val

\* long subsample(long val): val & (~1), in two's complement
subsample(val) == val - (val % 2)

\* The C expression "ss(v)": a call of subsample, or (v) when ss is empty
Call(ss, v) == IF ss = "subsample" THEN subsample(v) ELSE v

\* Image.getitem2d under REPLICATE that scales the coordinates before one
\* clamp of the offset.
getitem2d_scaleclamp(im, border_mode, channel, x, y) ==
    LET ch == IF channel = "None" THEN "CHANNEL_0" ELSE channel
        ss == Subsamp(im.color, ch)
        off == Offset(im.color, ch)
        stride_y == im.width * Items(im.color)
        stride_x == Items(im.color)
    IN  IF channel = "None" /\ Items(im.color) # 1
        THEN [err |-> MultiChannel, index |-> 0]
        ELSE IF border_mode \in {"UNDEFINED", "REPLICATE"}
        THEN [err |-> "none",
              index |-> clamp(Call(ss, y) * stride_y + Call(ss, x) * stride_x + off,
                              0, im.width * im.height - 1)]
        ELSE [err |-> NotImplemented, index |-> 0]

\* Image.getitem2d(node, channel, x, y), border_mode being node.border_mode
getitem2d(im, border_mode, channel, x, y) ==
    LET ch == IF channel = "None" THEN "CHANNEL_0" ELSE channel
        ss == Subsamp(im.color, ch)
        off == Offset(im.color, ch)
        stride_y == im.width * Items(im.color)
        stride_x == Items(im.color)
    IN  IF channel = "None" /\ Items(im.color) # 1
        THEN [err |-> MultiChannel, index |-> 0]
        ELSE IF border_mode = "UNDEFINED"
        THEN [err |-> "none",
              index |-> clamp(Call(ss, y) * stride_y + Call(ss, x) * stride_x + off,
                              0, im.width * im.height - 1)]
        ELSE IF border_mode = "REPLICATE"
        THEN [err |-> "none",
              index |-> Call(ss, clamp(y, 0, im.height - 1)) * stride_y
                            + Call(ss, clamp(x, 0, im.width - 1)) * stride_x + off]
        ELSE [err |-> NotImplemented, index |-> 0]

\* Image.getitem1d that leaves out the subsampling of the index.
getitem1d_nosubsample(im, border_mode, channel, idx) ==
    LET l == im.width * im.height * Items(im.color) - 1
    IN  IF channel = "data" THEN [err |-> "none", index |-> idx]
        ELSE IF channel = "None"
        THEN IF border_mode = "UNDEFINED"
             THEN [err |-> "none", index |-> clamp(idx, 0, l)]
             ELSE [err |-> NotImplemented, index |-> 0]
        ELSE [err |-> "none",
              index |-> clamp(idx, 0, l) * Items(im.color) + Offset(im.color, channel)]

\* Image.getitem1d(node, channel, idx)
getitem1d(im, border_mode, channel, idx) ==
    LET l == im.width * im.height * Items(im.color) - 1
    IN  IF channel = "data" THEN [err |-> "none", index |-> idx]
        ELSE IF channel = "None"
        THEN IF border_mode = "UNDEFINED"
             THEN [err |-> "none", index |-> clamp(idx, 0, l)]
             ELSE [err |-> NotImplemented, index |-> 0]
        ELSE [err |-> "none",
              index |-> Call(Subsamp(im.color, channel), clamp(idx, 0, l))
                            * Items(im.color) + Offset(im.color, channel)]

AddrFrame ==
    UNCHANGED <<img, nodes, early_verify, compiled_func, calls, late, verified, result,
                log, last, current_graph, ctxlog, fusion, sched, proc>>

\* The image the accesses are made on
AddrImage == img[1]

\* img[x, y] and img.channel[x, y] in a node's code
GetItem2d ==
    /\ access.rank = 2 /\ ~access.done
    /\ LET r == getitem2d(AddrImage, access.border_mode, access.channel,
                          access.x, access.y)
       IN  access' = [access EXCEPT !.done = TRUE, !.err = r.err, !.index = r.index]
    /\ AddrFrame

\* img[i], img.channel[i] and img.data[i] in a node's code
GetItem1d ==
    /\ access.rank = 1 /\ ~access.done
    /\ LET r == getitem1d(AddrImage, access.border_mode, access.channel, access.x)
       IN  access' = [access EXCEPT !.done = TRUE, !.err = r.err, !.index = r.index]
    /\ AddrFrame

AddrColors == {"U8", "RGB", "IYUV"}
BorderModes == {"UNDEFINED", "REPLICATE", "CONSTANT"}

Access(rank, border_mode, channel, x, y) ==
    [rank |-> rank, border_mode |-> border_mode, channel |-> channel, x |-> x,
     y |-> y, done |-> FALSE, err |-> "none", index |-> 0]

\* An allocated image of a resolved format, and one access to it with
\* coordinates from MaxOver before the first to MaxOver past the last
InitAddr ==
    /\ \E w \in 1..MaxAddrDim, h \in 1..MaxAddrDim, c \in AddrColors :
          /\ img = [d \in ImageIds |->
                       IF d = 1
                       THEN [width |-> w, height |-> h, color |-> c,
                             virtual |-> FALSE, producer |-> NoNode]
                       ELSE VirtualImage]
          /\ \E m \in BorderModes :
                \/ \E ch \in Channels(c) \cup {"None"},
                      x \in (0 - MaxOver)..(w - 1 + MaxOver),
                      y \in (0 - MaxOver)..(h - 1 + MaxOver) :
                        access = Access(2, m, ch, x, y)
                \/ \E ch \in Channels(c) \cup {"None", "data"},
                      i \in (0 - MaxOver)..(w * h * Items(c) - 1 + MaxOver) :
                        access = Access(1, m, ch, i, 0)
    /\ nodes = <<>>
    /\ early_verify = TRUE
    /\ compiled_func = 0
    /\ calls = 0
    /\ late = 0
    /\ verified = {}
    /\ result = NoCall
    /\ log = <<>>
    /\ last = NoCall
    /\ current_graph = NoGraph
    /\ ctxlog = <<>>
    /\ fusion = NoFusion
    /\ sched = NoSched
    /\ proc = NoProc

NextAddr == GetItem2d \/ GetItem1d

SpecAddr == InitAddr /\ [][NextAddr]_vars

\* ------------------------------------------------------------- SpecFuse
\* Two BinaryOperationNodes in a chain, compiled by ElementwiseNode.compile
\* into a loop each and by MergedElementwiseNode.compile into one loop, run
\* on buffers of NValues 8-bit elements.
BufferNames == {"a", "b", "c"}
ByteRange == 256

\* The image of a buffer: NValues x 1 pixels of one 8-bit channel
FuseImage == [width |-> NValues, height |-> 1, color |-> "U8", virtual |-> FALSE,
              producer |-> NoNode]

\* The element "__tmp_image_name[__i]" resolves to (Image.getitem1d, no
\* channel, the node's border mode being UNDEFINED)
Element(i) == getitem1d(FuseImage, "UNDEFINED", "None", i).index

\* BinaryOperationNode.body: out = in1 op in2, on temporaries of type long
Body(op, in1, in2) == IF op = "*" THEN in1 * in2 ELSE in1 + in2

\* The block ElementwiseNode.compile emits for node n, run for __i = i: the
\* loads of the inputs, the body, the store of the output into its 8-bit
\* element.
Block(n, i, bufs) ==
    LET in1 == bufs[n.in1][Element(i)]
        in2 == bufs[n.in2][Element(i)]
    IN  [bufs EXCEPT ![n.out][Element(i)] = Body(n.op, in1, in2) % ByteRange]

\* image.values: the bound of the loop over the elements of an image
Values(name) == FuseImage.width * FuseImage.height * Items(FuseImage.color)

\* The fused loop body with the blocks of the nodes in reverse order.
FusedBody_reversed(n1, n2, i, bufs) == Block(n1, i, Block(n2, i, bufs))

\* The body of the loop MergedElementwiseNode.compile emits: the block of
\* every original node, compiled with noloop, in their order.
FusedBody(n1, n2, i, bufs) == Block(n2, i, Block(n1, i, bufs))

FuseFrame ==
    UNCHANGED <<img, nodes, early_verify, compiled_func, calls, late, verified, result,
                log, last, current_graph, ctxlog, access, sched, proc>>

\* One iteration of the first node's own loop, over the elements of its
\* first input
SeparateFirst ==
    /\ fusion.pc = 1 /\ fusion.i < Values(fusion.n1.in1)
    /\ fusion' = [fusion EXCEPT !.sep = Block(fusion.n1, fusion.i, fusion.sep),
                                !.i = fusion.i + 1]
    /\ FuseFrame

\* The first loop ends and the second node's loop starts
SeparateNext ==
    /\ fusion.pc = 1 /\ ~(fusion.i < Values(fusion.n1.in1))
    /\ fusion' = [fusion EXCEPT !.pc = 2, !.i = 0]
    /\ FuseFrame

\* One iteration of the second node's own loop
SeparateSecond ==
    /\ fusion.pc = 2 /\ fusion.i < Values(fusion.n2.in1)
    /\ fusion' = [fusion EXCEPT !.sep = Block(fusion.n2, fusion.i, fusion.sep),
                                !.i = fusion.i + 1]
    /\ FuseFrame

\* The second loop ends; the fused pipeline runs on its own buffers
SeparateDone ==
    /\ fusion.pc = 2 /\ ~(fusion.i < Values(fusion.n2.in1))
    /\ fusion' = [fusion EXCEPT !.pc = 3, !.i = 0]
    /\ FuseFrame

\* One iteration of the fused loop, over the elements of the first input of
\* the first original node
FusedStep ==
    /\ fusion.pc = 3 /\ fusion.i < Values(fusion.n1.in1)
    /\ fusion' = [fusion EXCEPT
                      !.fus = FusedBody(fusion.n1, fusion.n2, fusion.i, fusion.fus),
                      !.i = fusion.i + 1]
    /\ FuseFrame

FusedDone ==
    /\ fusion.pc = 3 /\ ~(fusion.i < Values(fusion.n1.in1))
    /\ fusion' = [fusion EXCEPT !.pc = 4]
    /\ FuseFrame

\* Contents an externally backed input buffer starts with; allocated buffers
\* start zeroed
InputValues == {0, 3, 200}
Operators == {"+", "*"}

\* The first node reads a and writes b; the second reads b (and a or b) and
\* writes c
InitFuse ==
    /\ \E a \in [0..(NValues - 1) -> InputValues], op1 \in Operators,
          op2 \in Operators, other \in {"a", "b"} :
          LET bufs == [name \in BufferNames |->
                          IF name = "a" THEN a ELSE [k \in 0..(NValues - 1) |-> 0]]
          IN  fusion = [pc |-> 1, i |-> 0,
                        n1 |-> [op |-> op1, in1 |-> "a", in2 |-> "a", out |-> "b"],
                        n2 |-> [op |-> op2, in1 |-> "b", in2 |-> other, out |-> "c"],
                        sep |-> bufs, fus |-> bufs]
    /\ img = [d \in ImageIds |-> InitialImage(d)]
    /\ nodes = <<>>
    /\ early_verify = TRUE
    /\ compiled_func = 0
    /\ calls = 0
    /\ late = 0
    /\ verified = {}
    /\ result = NoCall
    /\ log = <<>>
    /\ last = NoCall
    /\ current_graph = NoGraph
    /\ ctxlog = <<>>
    /\ access = NoAccess
    /\ sched = NoSched
    /\ proc = NoProc

NextFuse ==
    \/ SeparateFirst
    \/ SeparateNext
    \/ SeparateSecond
    \/ SeparateDone
    \/ FusedStep
    \/ FusedDone

SpecFuse == InitFuse /\ [][NextFuse]_vars

\* ------------------------------------------------------------- SpecSched
\* Graph.schedule() step by step, as graph.verify() calls it on a graph that
\* defers verification: one action per iteration of its loops.  sched holds
\* the locals present, worklist, inorder and remaining, the position k of the
\* for loop in the worklist, and what was observed on the way: the number of
\* passes begun, the pass each node was scheduled in, and the pairs of nodes
\* that were ready and unscheduled together (ties: at any point; starts: when
\* a pass began).
SchedIds == {1, 2, 3}

\* The nodes a graph is built of
SchedNodes ==
    {Gaussian3x3Node(i, o) : i \in SchedIds, o \in SchedIds}
        \cup {AccumulateImageNode(i, a) : i \in SchedIds, a \in SchedIds}

\* Node identities count the constructions
WithIds(ns) ==
    [k \in DOMAIN ns |->
        [id |-> k, kind |-> ns[k].kind, inputs |-> ns[k].inputs,
         outputs |-> ns[k].outputs, inouts |-> ns[k].inouts]]

\* The images after Node.setup of the nodes ns[k..], none of which verifies
RECURSIVE Registered(_, _, _)
Registered(ns, k, imgs) ==
    IF k > Len(ns) THEN imgs
    ELSE Registered(ns, k + 1, set_producers(ns[k], imgs))

\* The test of Graph.schedule that never finds a pass without progress.
Stalled_never(worklist, remaining) == FALSE

\* len(worklist) == len(remaining)
Stalled(worklist, remaining) == Len(worklist) = Len(remaining)

\* The nodes not scheduled yet, in the order the loops will meet them
Unscheduled(s) ==
    IF s.pc = "for" THEN s.remaining \o SubSeq(s.worklist, s.k, Len(s.worklist))
    ELSE IF s.pc = "returned" THEN <<>>
    ELSE s.worklist

\* The pairs of unscheduled nodes that are both ready
ReadyPairs(s) ==
    {<<Unscheduled(s)[i].id, Unscheduled(s)[j].id>> :
        i \in {m \in DOMAIN Unscheduled(s) : Ready(Unscheduled(s)[m], s.present)},
        j \in {m \in DOMAIN Unscheduled(s) : Ready(Unscheduled(s)[m], s.present)}}

Observe(s) == [s EXCEPT !.ties = @ \cup ReadyPairs(s)]

SchedFrame ==
    UNCHANGED <<img, nodes, early_verify, compiled_func, calls, late, verified, result,
                log, last, current_graph, ctxlog, access, fusion, proc>>

\* "while worklist:" with a worklist that is not empty; remaining = []
SchedEnter ==
    /\ sched.pc = "while" /\ sched.worklist # <<>>
    /\ sched' = [sched EXCEPT !.pc = "for", !.k = 1, !.remaining = <<>>,
                              !.passes = IF @ > Len(nodes) THEN @ ELSE @ + 1,
                              !.starts = @ \cup ReadyPairs(sched)]
    /\ SchedFrame

\* "while worklist:" with an empty worklist; return inorder
SchedReturn ==
    /\ sched.pc = "while" /\ sched.worklist = <<>>
    /\ sched' = [sched EXCEPT !.pc = "returned"]
    /\ SchedFrame

\* An iteration of "for n in worklist" on a node that is ready
SchedTake ==
    /\ sched.pc = "for" /\ sched.k <= Len(sched.worklist)
    /\ Ready(sched.worklist[sched.k], sched.present)
    /\ sched' = Observe([sched EXCEPT
                    !.inorder = Append(@, sched.worklist[sched.k]),
                    !.present = MarkOutputs(sched.worklist[sched.k], @),
                    !.passof[sched.worklist[sched.k].id] = sched.passes,
                    !.k = @ + 1])
    /\ SchedFrame

\* The iteration on a node that is not ready, putting the node in front of
\* the remaining ones.
SchedSkip_front ==
    /\ sched.pc = "for" /\ sched.k <= Len(sched.worklist)
    /\ ~Ready(sched.worklist[sched.k], sched.present)
    /\ sched' = Observe([sched EXCEPT
                    !.remaining = <<sched.worklist[sched.k]>> \o @, !.k = @ + 1])
    /\ SchedFrame

\* An iteration of "for n in worklist" on a node that is not ready
SchedSkip ==
    /\ sched.pc = "for" /\ sched.k <= Len(sched.worklist)
    /\ ~Ready(sched.worklist[sched.k], sched.present)
    /\ sched' = Observe([sched EXCEPT
                    !.remaining = Append(@, sched.worklist[sched.k]), !.k = @ + 1])
    /\ SchedFrame

\* The end of a pass that scheduled nothing: raise InvalidGraphError
SchedRaise ==
    /\ sched.pc = "for" /\ sched.k > Len(sched.worklist)
    /\ Stalled(sched.worklist, sched.remaining)
    /\ sched' = [sched EXCEPT !.pc = "raised"]
    /\ SchedFrame

\* The end of a pass that scheduled a node: worklist = remaining
SchedNextPass ==
    /\ sched.pc = "for" /\ sched.k > Len(sched.worklist)
    /\ ~Stalled(sched.worklist, sched.remaining)
    /\ sched' = [sched EXCEPT !.pc = "while", !.worklist = sched.remaining]
    /\ SchedFrame

\* graph.verify() has computed self.images and enters schedule() on the
\* nodes constructed so far
InitSched ==
    /\ \E ns \in UNION {[1..m -> SchedNodes] : m \in 0..MaxSchedNodes} :
          /\ nodes = WithIds(ns)
          /\ img = Registered(WithIds(ns), 1, [d \in ImageIds |-> InitialImage(d)])
          /\ sched = Observe([pc |-> "while", worklist |-> WithIds(ns), k |-> 1,
                              present |-> InitialPresent(WithIds(ns),
                                              [d \in ImageIds |-> InitialImage(d)]),
                              inorder |-> <<>>, remaining |-> <<>>, passes |-> 0,
                              passof |-> [id \in DOMAIN ns |-> 0],
                              ties |-> {}, starts |-> {}])
    /\ early_verify = FALSE
    /\ compiled_func = 0
    /\ calls = 0
    /\ late = 0
    /\ verified = {}
    /\ result = NoCall
    /\ log = <<>>
    /\ last = NoCall
    /\ current_graph = NoGraph
    /\ ctxlog = <<>>
    /\ access = NoAccess
    /\ fusion = NoFusion
    /\ proc = NoProc

NextSched ==
    \/ SchedEnter
    \/ SchedReturn
    \/ SchedTake
    \/ SchedSkip
    \/ SchedRaise
    \/ SchedNextPass

SpecSched == InitSched /\ [][NextSched]_vars

\* schedule() runs in one thread and to completion: a step that can be
\* taken is taken
SpecSchedFair == SpecSched /\ WF_vars(NextSched)

\* ------------------------------------------------------------- SpecProc
\* A graph of one MultiplyNode over two externally backed ProcDim x ProcDim
\* 8-bit images and a virtual output: graph.verify(), then process(), the
\* emitted loop running one iteration per step.  proc holds the node's
\* scalar parameters, the three buffers, and the loop variable __i.
ProcIn1 == 1
ProcIn2 == 2
ProcOut == 3

\* ElementwiseNode.small_ints, as colors
SmallInts == {"U8", "S16"}

\* result_color(formats...): the format the inputs unify to; the inputs of
\* the model share one format
result_color(c1, c2) == [color |-> c1, ok |-> Items(c1) = Items(c2)]

\* ElementwiseNode.verify (the node has one output and no inout)
elementwise_verify(n, imgs, convert_policy) ==
    LET c == result_color(imgs[n.inputs[1]].color, imgs[n.inputs[2]].color)
        o == n.outputs[1]
        r == ensure_similar(suggest_color(imgs[o], c.color), imgs[n.inputs[1]])
    IN  [images |-> [imgs EXCEPT ![o] = r.image],
         err |-> IF ~c.ok \/ ~r.ok THEN InvalidFormat
                 ELSE IF convert_policy = "SATURATE" /\ r.image.color \notin SmallInts
                 THEN InvalidFormat ELSE "none"]

\* MultiplyNode.body without the scale factor.
MultiplyBody_noscale(in1, in2, scale) == in1 * in2

\* MultiplyNode.body with ROUND_POLICY_TO_ZERO: out = in1 * in2 * scale, on
\* temporaries of type long
MultiplyBody(in1, in2, scale) == in1 * in2 * scale

\* "__tmp_image_out[__i] = out;" with CONVERT_POLICY_WRAP: the long is
\* stored into an 8-bit element
StoreWrap(value) == value % ByteRange

\* image.values of image d
ProcValues(d) == img[d].width * img[d].height * Items(img[d].color)

\* d.alloc(): a new buffer of width * height * items zeroed elements
Alloc(im) == [k \in 0..(im.width * im.height * Items(im.color) - 1) |-> 0]

ProcFrame ==
    UNCHANGED <<early_verify, late, log, last, current_graph, ctxlog, access, fusion,
                sched>>

\* graph.verify(): schedule(), the node's do_verify(), the checks of the
\* images, compile() allocating the output
ProcVerify ==
    /\ proc.pc = "built"
    /\ \E s \in {schedule(nodes, img)} :
       \E r \in {elementwise_verify(nodes[1], img, proc.convert_policy)} :
          IF ~s.ok
          THEN /\ proc' = [proc EXCEPT !.pc = "failed"]
               /\ result' = [op |-> "verify", err |-> CyclicGraph]
               /\ UNCHANGED <<img, nodes, verified, compiled_func>>
          ELSE IF r.err # "none" \/ CheckErrors(s.order, r.images) # {}
          THEN /\ proc' = [proc EXCEPT !.pc = "failed"]
               /\ result' = [op |-> "verify", err |-> InvalidFormat]
               /\ nodes' = s.order
               /\ img' = r.images
               /\ UNCHANGED <<verified, compiled_func>>
          ELSE /\ proc' = [proc EXCEPT !.pc = "verified",
                                       !.out = Alloc(r.images[ProcOut])]
               /\ result' = [op |-> "verify", err |-> "none"]
               /\ nodes' = s.order
               /\ img' = r.images
               /\ verified' = verified \cup {nodes[1].id}
               /\ compiled_func' = compiled_func + 1
    /\ UNCHANGED calls
    /\ ProcFrame

\* graph.process() calls the compiled function; the loop starts at __i = 0
ProcCall ==
    /\ proc.pc = "verified"
    /\ proc' = [proc EXCEPT !.pc = "loop", !.i = 0]
    /\ calls' = calls + 1
    /\ result' = [op |-> "process", err |-> "none"]
    /\ UNCHANGED <<img, nodes, verified, compiled_func>>
    /\ ProcFrame

\* One iteration of "for (__i = 0; __i < __tmp_image_in1.values; __i++)":
\* the loads, the body, the store
ProcStep ==
    /\ proc.pc = "loop" /\ proc.i < ProcValues(ProcIn1)
    /\ proc' = [proc EXCEPT
                   !.out[proc.i] = StoreWrap(MultiplyBody(proc.in1[proc.i],
                                                          proc.in2[proc.i], proc.scale)),
                   !.i = @ + 1]
    /\ UNCHANGED <<img, nodes, verified, compiled_func, calls, result>>
    /\ ProcFrame

\* The loop ends and process() returns
ProcDone ==
    /\ proc.pc = "loop" /\ ~(proc.i < ProcValues(ProcIn1))
    /\ proc' = [proc EXCEPT !.pc = "done"]
    /\ UNCHANGED <<img, nodes, verified, compiled_func, calls, result>>
    /\ ProcFrame

\* The strides of the input patterns
ProcStrides == {0, 1, 17}

\* The constant second factor and the scale: both multiply by 2 in all
Doublings == {[in2 |-> 1, scale |-> 2], [in2 |-> 2, scale |-> 1]}

\* MultiplyNode(g, in1, in2, scale, CONVERT_POLICY_WRAP, ROUND_POLICY_TO_ZERO,
\* out) on a graph that defers verification; the input holds
\* (base + i * stride) mod 256 at element i
InitProc ==
    /\ \E base \in 0..(ByteRange - 1), stride \in ProcStrides, f \in Doublings :
          proc = [pc |-> "built", i |-> 0, scale |-> f.scale, convert_policy |-> "WRAP",
                  in1 |-> [k \in 0..(ProcDim * ProcDim - 1) |->
                              (base + k * stride) % ByteRange],
                  in2 |-> [k \in 0..(ProcDim * ProcDim - 1) |-> f.in2],
                  out |-> <<>>]
    /\ img = [d \in ImageIds |->
                 IF d \in {ProcIn1, ProcIn2}
                 THEN [ExternalImage EXCEPT !.width = ProcDim, !.height = ProcDim]
                 ELSE IF d = ProcOut THEN [VirtualImage EXCEPT !.producer = 1]
                 ELSE InitialImage(d)]
    /\ nodes = <<[id |-> 1, kind |-> "Multiply", inputs |-> <<ProcIn1, ProcIn2>>,
                  outputs |-> <<ProcOut>>, inouts |-> <<>>]>>
    /\ early_verify = FALSE
    /\ compiled_func = 0
    /\ calls = 0
    /\ late = 0
    /\ verified = {}
    /\ result = NoCall
    /\ log = <<>>
    /\ last = NoCall
    /\ current_graph = NoGraph
    /\ ctxlog = <<>>
    /\ access = NoAccess
    /\ fusion = NoFusion
    /\ sched = NoSched

NextProc ==
    \/ ProcVerify
    \/ ProcCall
    \/ ProcStep
    \/ ProcDone

SpecProc == InitProc /\ [][NextProc]_vars

\* ------------------------------------------------------------- properties
IsVerify == result.op = "verify"
IsNode == result.op = "Node"

\* Position of the node with identity id in a node list
Pos(ns, id) == CHOOSE k \in DOMAIN ns : ns[k].id = id

\* No image is written (as output or inout) by two different nodes
SingleWriter(ns) ==
    \A j \in DOMAIN ns, k \in DOMAIN ns :
        j # k => SeqToSet(Writes(ns[j])) \cap SeqToSet(Writes(ns[k])) = {}

\* ns[j] reads an image that ns[k] writes as output (any = FALSE) or as
\* output or inout (any = TRUE)
Feeds(ns, k, j, any) ==
    SeqToSet(ns[j].inputs)
        \cap SeqToSet(IF any THEN Writes(ns[k]) ELSE ns[k].outputs) # {}

RECURSIVE Upstream(_, _, _, _)
Upstream(ns, S, any, fuel) ==
    IF fuel = 0 THEN S
    ELSE Upstream(ns, S \cup {k \in DOMAIN ns : \E j \in S : Feeds(ns, k, j, any)},
                  any, fuel - 1)

\* Some node's inputs depend, transitively, on what the node itself writes
Cyclic(ns, any) ==
    \E j \in DOMAIN ns :
        j \in Upstream(ns, {k \in DOMAIN ns : Feeds(ns, k, j, any)}, any, Len(ns))

\* Every node of order comes after the producer of each of its virtual inputs
ProducersFirst(order) ==
    \A k \in DOMAIN order : \A i \in DOMAIN order[k].inputs :
        LET d == order[k].inputs[i]
        IN  img[d].virtual =>
                /\ \E j \in DOMAIN order : order[j].id = img[d].producer
                /\ Pos(order, img[d].producer) < k

\* C1 as stated: for every acyclic graph, in the order schedule() returns every
\* node comes after the producer of each of its virtual input images.
C1_AnyAcyclicGraph ==
    (IsVerify /\ result.scheduled /\ ~Cyclic(result.before, TRUE))
        => ProducersFirst(result.order)

\* C1 amended: for every acyclic graph in which no image is written by two
\* different nodes, in the order schedule() returns every node comes after
\* the producer of each of its virtual input images.
C1_ScheduleValid ==
    (IsVerify /\ result.scheduled /\ ~Cyclic(result.before, TRUE)
              /\ SingleWriter(result.before))
        => ProducersFirst(result.order)

\* A single-writer graph whose schedule moved a producer in front of a reader
\* of a virtual image that was inserted before it.
C1_Witness ==
    /\ IsVerify /\ result.scheduled /\ SingleWriter(result.before)
    /\ ~Cyclic(result.before, TRUE)
    /\ \E k \in DOMAIN result.order : \E i \in DOMAIN result.order[k].inputs :
          LET d == result.order[k].inputs[i]
          IN  /\ img[d].virtual
              /\ img[d].producer > result.order[k].id

ReachedCompile == \E k \in DOMAIN log : log[k].ev = "alloc"

\* C2 as stated: a graph with a node whose inputs depend, through other
\* nodes' outputs, on its own output fails verify() with "Loops not allowed"
\* and compile() is never reached.
C2_AlwaysCyclicGraphError ==
    (IsVerify /\ Cyclic(result.before, FALSE))
        => (result.err = CyclicGraph /\ ~ReachedCompile)

\* C2 amended: such a graph fails verify() and never reaches compile(); the
\* error is "Loops not allowed" when no image of the graph is written by two
\* different nodes.
C2_CycleDetected ==
    (IsVerify /\ Cyclic(result.before, FALSE))
        => /\ result.err # "none"
           /\ ~ReachedCompile
           /\ compiled_func # calls
           /\ SingleWriter(result.before) => result.err = CyclicGraph

\* A two-node cycle without self-loop, rejected by verify().
C2_Witness ==
    /\ IsVerify /\ Cyclic(result.before, FALSE) /\ SingleWriter(result.before)
    /\ result.err = CyclicGraph
    /\ \A k \in DOMAIN result.before :
          SeqToSet(result.before[k].inputs) \cap SeqToSet(Writes(result.before[k])) = {}

\* The node the last Node(...) call constructed
Constructed == nodes[Pos(nodes, result.id)]

\* The node just constructed writes an image that already had a producer
SecondWriter ==
    \E k \in DOMAIN Writes(Constructed) :
        img[Writes(Constructed)[k]].producer # Constructed.id

\* C3 as stated: the construction of a second writer of an image fails with
\* MultipleWriters.
C3_FailsAtConstruction ==
    (IsNode /\ SecondWriter) => result.err = MultipleWriters

\* C3 amended: on a graph that verifies early the construction of a second
\* writer fails with MultipleWriters; on a graph that defers verification the
\* construction raises nothing, and graph.verify() fails without reaching
\* compile().
C3_SingleWriter ==
    /\ (IsNode /\ SecondWriter) =>
           result.err = (IF early_verify THEN MultipleWriters ELSE "none")
    /\ (IsVerify /\ ~SingleWriter(result.before)) =>
           (result.err # "none" /\ ~ReachedCompile)

\* An eager graph on which the construction of a second writer raised.
C3_Witness ==
    IsNode /\ SecondWriter /\ early_verify /\ result.err = MultipleWriters

\* The first node constructed that writes image d, NoNode if there is none
\* (node identities count the constructions)
FirstWriter(d) ==
    LET w == {nodes[k].id : k \in {j \in DOMAIN nodes : d \in SeqToSet(Writes(nodes[j]))}}
    IN  IF w = {} THEN NoNode ELSE CHOOSE a \in w : \A b \in w : a <= b

ProducerIsFirstWriter == \A d \in ImageIds : img[d].producer = FirstWriter(d)

ProducerKept ==
    \A d \in ImageIds : img[d].producer # NoNode => img'[d].producer = img[d].producer

\* C4: an image's producer is unset or the first node bound to it as output
\* or inout, and once set it never changes.
C4_ProducerStable == []ProducerIsFirstWriter /\ [][ProducerKept]_vars

\* After verify(), an image with two writers still has the first as producer.
C4_Witness ==
    /\ IsVerify
    /\ \E d \in ImageIds, j \in DOMAIN nodes, k \in DOMAIN nodes :
          /\ nodes[j].id < nodes[k].id
          /\ d \in SeqToSet(Writes(nodes[j])) \cap SeqToSet(Writes(nodes[k]))
          /\ img[d].producer = nodes[j].id

LastCtx == ctxlog[Len(ctxlog)]

\* C5: one graph at most is current; enter while a graph is current and exit
\* of a graph that is not current fail and leave the current graph as it
\* was; after a successful exit no graph is current.
C5_CurrentGraph ==
    /\ current_graph \in GraphIds \cup {NoGraph}
    /\ ctxlog # <<>> =>
         /\ LastCtx.op = "enter" =>
              /\ LastCtx.ok <=> LastCtx.before = NoGraph
              /\ current_graph = (IF LastCtx.ok THEN LastCtx.graph ELSE LastCtx.before)
         /\ LastCtx.op = "exit" =>
              /\ LastCtx.ok <=> LastCtx.before = LastCtx.graph
              /\ current_graph = (IF LastCtx.ok THEN NoGraph ELSE LastCtx.before)

\* A second graph was entered while one was current, and the call failed.
C5_Witness ==
    /\ ctxlog # <<>>
    /\ LastCtx.op = "enter" /\ ~LastCtx.ok
    /\ LastCtx.before # NoGraph /\ LastCtx.before # LastCtx.graph
    /\ current_graph = LastCtx.before

\* C6: when schedule() returns, its result holds every node of the graph's
\* node list exactly once.
C6_Permutation ==
    (IsVerify /\ result.scheduled) =>
        /\ Len(result.order) = Len(result.before)
        /\ \A j \in DOMAIN result.before :
              Cardinality({k \in DOMAIN result.order :
                               result.order[k] = result.before[j]}) = 1

\* A schedule of three nodes that is not the insertion order.
C6_Witness ==
    /\ IsVerify /\ result.scheduled
    /\ Len(result.before) = 3
    /\ result.order # result.before

\* C7: suggest_color, and ensure_similar, called a second time with the same
\* argument leaves the image as the first call left it and ends as the first
\* call ended.
C7_Idempotent ==
    (last.op \in {"suggest_color", "ensure_similar"} /\ last.repeat) =>
        (img[last.tgt] = last.pre /\ last.ok = last.prevOk)

\* ensure_similar raised twice in a row on an image whose shape conflicts.
C7_Witness ==
    /\ last.op = "ensure_similar" /\ last.repeat /\ ~last.ok
    /\ last.tgt # last.arg
    /\ img[last.tgt].width # 0 /\ img[last.tgt].width = img[last.arg].width
    /\ img[last.tgt].height # img[last.arg].height

\* C8: ensure_shape(width, height) sets the dimensions that are zero to the
\* requested ones, keeps the others, and raises exactly when a dimension
\* then differs from the requested one.
C8_EnsureShape ==
    last.op = "ensure_shape" =>
        LET pre == last.pre
            post == img[last.tgt]
            w == last.arg[1]
            h == last.arg[2]
        IN  /\ post.width = (IF pre.width = 0 THEN w ELSE pre.width)
            /\ post.height = (IF pre.height = 0 THEN h ELSE pre.height)
            /\ post.color = pre.color
            /\ last.ok <=> (post.width = w /\ post.height = h)
            /\ ~last.ok <=> (post.width # w \/ post.height # h)

\* ensure_shape filled the width and raised on the height.
C8_Witness ==
    /\ last.op = "ensure_shape" /\ ~last.ok
    /\ last.pre.width = 0 /\ last.arg[1] # 0
    /\ img[last.tgt].width = last.arg[1]
    /\ img[last.tgt].height # last.arg[2]

\* C9 as stated: when verify() reaches compile(), every image of the graph
\* has a color other than VIRT and a non-zero width and height.
C9_ResolvedAtCompile ==
    ReachedCompile =>
        \A d \in GraphImages(nodes) :
            img[d].color # "VIRT" /\ img[d].width # 0 /\ img[d].height # 0

\* The node identities of the events ev of the log, in order
RECURSIVE EventNodes(_, _)
EventNodes(lg, ev) ==
    IF lg = <<>> THEN <<>>
    ELSE IF lg[1].ev = ev THEN <<lg[1].node>> \o EventNodes(Tail(lg), ev)
    ELSE EventNodes(Tail(lg), ev)

Ids(ns) == [k \in DOMAIN ns |-> ns[k].id]

FirstAt(ev) == CHOOSE k \in DOMAIN log : log[k].ev = ev /\ \A j \in 1..(k - 1) : log[j].ev # ev

Happened(ev) == \E k \in DOMAIN log : log[k].ev = ev

\* What do_verify tests on node n, read from the images as they are now
VerifiedNow(n) ==
    /\ \A k \in DOMAIN Writes(n) : img[Writes(n)[k]].producer = n.id
    /\ \A k \in DOMAIN n.inouts : ~img[n.inouts[k]].virtual
    /\ \A k \in DOMAIN n.inputs :
          img[n.inputs[k]].width # 0 /\ img[n.inputs[k]].height # 0

HasRuns == (IsNode \/ IsVerify) /\ result.runs # <<>>

\* C11 as stated: whenever do_verify() of a node runs, at construction on an
\* eager graph or inside graph.verify(), the producer (other than the node
\* itself) of each of its input images has completed its own do_verify()
\* without exception before.
C11_ProducersVerifiedFirst ==
    HasRuns =>
        \A k \in DOMAIN result.runs :
            result.runs[k].pending \ {result.runs[k].id} = {}

\* Some image the graph's nodes reference is virtual and has no producer
UnproducedVirtual(ns) ==
    \E d \in GraphImages(ns) : img[d].virtual /\ img[d].producer = NoNode

\* C12 as stated: verify() of a graph that references a virtual image no node
\* produces fails with "Virtual data never produced".
C12_VirtualNeverProduced ==
    (IsVerify /\ UnproducedVirtual(result.before))
        => result.err = VirtualNeverProduced

\* C13 as stated: a do_verify() that runs while an input image has a zero
\* width or height fails with InvalidFormatError before verify() is invoked.
C13_AlwaysFormatError ==
    HasRuns =>
        \A k \in DOMAIN result.runs :
            result.runs[k].unresolved =>
                (~result.runs[k].called /\ result.runs[k].err = InvalidFormat)

\* C13 amended: a do_verify() that runs while an input image has a zero width
\* or height fails before verify() is invoked, with MultipleWritersError when
\* an image the node writes has another producer, else with "Bidirection data
\* cant be virtual" when an inout is virtual, else with InvalidFormatError;
\* verify() is invoked only on inputs with both dimensions non-zero.
C13_UnresolvedInput ==
    HasRuns =>
        \A k \in DOMAIN result.runs :
            LET r == result.runs[k]
            IN  /\ r.unresolved =>
                      /\ ~r.called
                      /\ r.err = (IF r.otherwriter THEN MultipleWriters
                                  ELSE IF r.bidirvirtual THEN BidirVirtual
                                  ELSE InvalidFormat)
                /\ r.called => ~r.unresolved

\* graph.verify() of a deferred graph stopped with InvalidFormatError at the
\* second node it verified, whose input the first node left without shape.
C13_Witness ==
    /\ IsVerify /\ ~early_verify /\ Len(result.runs) = 2
    /\ result.runs[2].unresolved /\ ~result.runs[2].called
    /\ result.runs[2].err = InvalidFormat /\ result.err = InvalidFormat
    /\ result.runs[1].called /\ result.runs[1].err = "none"

\* A step that constructs a node on a deferred graph leaves the images'
\* formats and the set of verified nodes as they were
DeferredConstruction ==
    (~early_verify /\ Len(nodes') = Len(nodes) + 1) =>
        /\ verified' = verified
        /\ \A d \in ImageIds :
              /\ img'[d].width = img[d].width
              /\ img'[d].height = img[d].height
              /\ img'[d].color = img[d].color

\* The last call, when it constructed a node, ran the node's do_verify() and
\* ended as it ended on an eager graph, and ran no do_verify() and raised
\* nothing on a deferred graph; on a deferred graph only verify() raises
ConstructionVerifies ==
    /\ IsNode =>
          IF early_verify
          THEN /\ Len(result.runs) = 1
               /\ result.runs[1].id = result.id
               /\ result.err = result.runs[1].err
          ELSE /\ result.runs = <<>>
               /\ result.err = "none"
    /\ (~early_verify /\ calls = 0) => verified = {}
    /\ (~early_verify /\ (IsNode \/ IsVerify) /\ result.err # "none") => IsVerify

\* C15: on an eager graph the construction of a node runs the node's
\* do_verify() and ends as it ends; on a deferred graph the construction runs
\* no do_verify(), raises nothing and leaves the images' formats alone, so
\* that every verification error comes from graph.verify().
C15_EagerDeferred == []ConstructionVerifies /\ [][DeferredConstruction]_vars

\* On a deferred graph the construction of a second writer of an image and
\* of a reader of an image without shape raised nothing.
C15_Witness ==
    /\ IsNode /\ ~early_verify /\ calls = 0 /\ result.err = "none"
    /\ SecondWriter
    /\ \E k \in DOMAIN Constructed.inputs : img[Constructed.inputs[k]].width = 0

\* A call leaves a parameter of the signature unbound, passes one both by
\* position and by keyword, or the signature declares an unknown direction
Unbound(sig, args, kwargs) ==
    \E i \in DOMAIN sig : i > Len(args) /\ Name(sig[i]) \notin DOMAIN kwargs
Duplicate(sig, args, kwargs) ==
    \E i \in DOMAIN sig : i <= Len(args) /\ Name(sig[i]) \in DOMAIN kwargs
Misdirected(sig) ==
    \E i \in DOMAIN sig : Direction(sig[i]) \notin {"in", "out", "inout"}

TypeErrors == {TypeErrorMultiple, TypeErrorMissing, TypeErrorDirection}

\* A Node(...) call with such a defect raises TypeError and changes neither
\* the graph's node list nor any image: the step raised and changed nothing,
\* or it is not the step of a call with a defect
DefectiveCallRaises ==
    \A kind \in BindKinds :
        \A args \in BindArgs(kind), kwargs \in BindKwargs(kind) :
            \/ /\ result'.err \in TypeErrors
               /\ nodes' = nodes
               /\ img' = img
               /\ verified' = verified
            \/ ~(/\ \/ Unbound(Signature(kind), args, kwargs)
                    \/ Duplicate(Signature(kind), args, kwargs)
                    \/ Misdirected(Signature(kind))
                 /\ NodeInit(kind, args, kwargs))

\* Every registered node has one value bound per parameter of its signature,
\* in the list of the parameter's direction
FullyBound ==
    \A k \in DOMAIN nodes :
        LET sig == Signature(nodes[k].kind)
            count(dir) == Cardinality({i \in DOMAIN sig : Direction(sig[i]) = dir})
        IN  /\ ~Misdirected(sig)
            /\ Len(nodes[k].inputs) = count("in")
            /\ Len(nodes[k].outputs) = count("out")
            /\ Len(nodes[k].inouts) = count("inout")

Min(a, b) == IF a <= b THEN a ELSE b
Max(a, b) == IF a >= b THEN a ELSE b
Abs(a) == IF a < 0 THEN 0 - a ELSE a

\* The coordinate of 0..(n - 1) nearest to v
Nearest(v, n) == CHOOSE c \in 0..(n - 1) : \A d \in 0..(n - 1) : Abs(c - v) <= Abs(d - v)

\* The access of the state was resolved to a C index expression
Resolved(rank) == access.rank = rank /\ access.done /\ access.err = "none"

\* The channel the access addresses
AccessChannel == IF access.channel = "None" THEN "CHANNEL_0" ELSE access.channel

\* Number of elements of the image's buffer
TotalLength == AddrImage.width * AddrImage.height * Items(AddrImage.color)

\* C16: under REPLICATE a 2-D access to a single-channel image resolves to
\* element cy * width + cx, cx and cy being the coordinates clamped to
\* 0..width-1 and 0..height-1; on a 5x5 image (-1,-1) resolves to element 0,
\* the element of (0,0), and (5,5) to element 24, the element of (4,4).
C16_Replicate ==
    (access.rank = 2 /\ access.done /\ access.border_mode = "REPLICATE"
                     /\ Items(AddrImage.color) = 1) =>
        /\ access.err = "none"
        /\ access.index = Nearest(access.y, AddrImage.height) * AddrImage.width
                              + Nearest(access.x, AddrImage.width)
        /\ (AddrImage.width = 5 /\ AddrImage.height = 5) =>
              /\ (access.x = 0 - 1 /\ access.y = 0 - 1) => access.index = 0
              /\ (access.x = 5 /\ access.y = 5) => access.index = 4 * 5 + 4

\* The access at (5,5) of a 5x5 single-channel image resolved to element 24.
C16_Witness ==
    /\ Resolved(2) /\ access.border_mode = "REPLICATE"
    /\ AddrImage.width = 5 /\ AddrImage.height = 5 /\ Items(AddrImage.color) = 1
    /\ access.x = 5 /\ access.y = 5 /\ access.index = 24

\* The offset of a 2-D access before any clamping
RawOffset ==
    Call(Subsamp(AddrImage.color, AccessChannel), access.y)
            * (AddrImage.width * Items(AddrImage.color))
        + Call(Subsamp(AddrImage.color, AccessChannel), access.x) * Items(AddrImage.color)
        + Offset(AddrImage.color, AccessChannel)

InRange ==
    /\ 0 <= access.x /\ access.x < AddrImage.width
    /\ 0 <= access.y /\ access.y < AddrImage.height

\* C17 as stated: under UNDEFINED a 2-D access resolves to its raw offset
\* clamped to 0..(width * height * item count - 1), so that an access with
\* both coordinates in range resolves to its raw offset, whatever the format
\* and the channel.
C17_UndefinedClamp ==
    (Resolved(2) /\ access.border_mode = "UNDEFINED") =>
        /\ access.index = Max(0, Min(RawOffset, TotalLength - 1))
        /\ InRange => access.index = RawOffset

\* C18: a channel-qualified 1-D access at index i, 0 <= i < width * height,
\* of an image with item count 3 resolves to i * 3 + o for a channel of
\* offset o that is not subsampled, and to (i with its lowest bit cleared)
\* * 3 + o for a 2:1 subsampled channel.
C18_ChannelAddressing ==
    (access.rank = 1 /\ access.done /\ access.channel \in Channels(AddrImage.color)
         /\ Items(AddrImage.color) = 3
         /\ 0 <= access.x /\ access.x < AddrImage.width * AddrImage.height) =>
        /\ access.err = "none"
        /\ access.index =
              (IF Subsamp(AddrImage.color, access.channel) = "subsample"
               THEN 2 * (access.x \div 2) ELSE access.x) * 3
                  + Offset(AddrImage.color, access.channel)

\* An odd index of a subsampled channel resolved to the element of the even
\* index before it.
C18_Witness ==
    /\ Resolved(1) /\ AddrImage.color = "IYUV" /\ access.channel = "CHANNEL_V"
    /\ access.x = 3 /\ AddrImage.width * AddrImage.height > 3
    /\ access.index = 2 * 3 + 2

\* C19 as stated: every 1-D or 2-D access the resolvers emit, the data alias
\* excepted, addresses an element of 0..(width * height * item count - 1).
C19_BoundsSafe ==
    (access.rank \in {1, 2} /\ access.done /\ access.err = "none"
         /\ access.channel # "data") =>
        (0 <= access.index /\ access.index <= TotalLength - 1)

\* C20: after one pass, every buffer of a chain of two elementwise nodes over
\* the same elements holds the same contents whether the nodes ran as two
\* loops or as one fused loop.
C20_FusionTransparent ==
    fusion.pc = 4 => fusion.sep = fusion.fus

\* Both executions ended; the second node read both a and b, and its output
\* holds a product that was cut to 8 bits.
C20_Witness ==
    /\ fusion.pc = 4 /\ fusion.sep = fusion.fus
    /\ fusion.n1.op = "+" /\ fusion.n2.op = "*" /\ fusion.n2.in2 = "a"
    /\ fusion.sep["a"][0] = 200 /\ fusion.sep["a"][1] = 3
    /\ fusion.fus["b"][0] = 144 /\ fusion.fus["c"][0] = 128
    /\ fusion.fus["c"][1] = 18

\* C27 as stated: whenever ensure_shape raises, the image's width and height
\* are the same as before the call.
C27_FailureAtomic ==
    (last.op = "ensure_shape" /\ ~last.ok) =>
        /\ img[last.tgt].width = last.pre.width
        /\ img[last.tgt].height = last.pre.height

\* The do_verify() runs of the last call, as node identities in order
RunIds == [k \in DOMAIN result.runs |-> result.runs[k].id]

\* C25: a verify() call either fails in schedule() with CyclicGraph, and then
\* the graph's node list is the one of before the call, all nodes in their
\* insertion order, no do_verify() was invoked and no compiled entry point
\* was set, or schedule() returned and the node list holds every node: no
\* part of a schedule is kept.
C25_NoPartialScheduling ==
    IsVerify =>
        IF result.err = CyclicGraph
        THEN /\ ~result.scheduled
             /\ nodes = result.before
             /\ result.runs = <<>> /\ ~Happened("do_verify")
             /\ ~ReachedCompile /\ ~Happened("compiled_func")
             /\ compiled_func # calls
        ELSE /\ result.scheduled
             /\ nodes = result.order
             /\ Len(nodes) = Len(result.before)
             /\ SeqToSet(Ids(nodes)) = SeqToSet(Ids(result.before))

\* verify() failed with CyclicGraph on a graph of three nodes of which one
\* was ready in the first pass; the node list is as it was.
C25_Witness ==
    /\ IsVerify /\ result.err = CyclicGraph
    /\ Len(nodes) = 3 /\ nodes = result.before /\ Ids(nodes) = <<1, 2, 3>>
    /\ \E k \in DOMAIN nodes : Ready(nodes[k], InitialPresent(nodes, img))
    /\ compiled_func = 0 /\ result.runs = <<>>

\* On an eager graph the node just constructed is in the node list, its one
\* do_verify() ran when the producers were already as they are now, and every
\* image it writes has it as producer unless an earlier node writes it
RegisteredBeforeVerification ==
    (IsNode /\ early_verify) =>
        /\ \E k \in DOMAIN nodes : nodes[k].id = result.id
        /\ Len(result.runs) = 1 /\ result.runs[1].id = result.id
        /\ result.err = result.runs[1].err
        /\ result.runs[1].otherwriter <=> SecondWriter
        /\ \A k \in DOMAIN Writes(Constructed) :
              LET d == Writes(Constructed)[k]
              IN  \/ img[d].producer = result.id
                  \/ \E j \in DOMAIN nodes :
                        /\ nodes[j].id < result.id
                        /\ nodes[j].id = img[d].producer
                        /\ d \in SeqToSet(Writes(nodes[j]))

\* C28 as stated: on an eager graph a node is registered and made producer
\* before its verification runs, stays so when the verification raises, and
\* a later graph.verify() verifies it again: after verify() every node that
\* has not verified successfully had its do_verify() run by that call.
C28_AlwaysVerifiedAgain ==
    /\ RegisteredBeforeVerification
    /\ (IsVerify /\ early_verify) =>
          \A k \in DOMAIN nodes :
              nodes[k].id \notin verified =>
                  \E j \in DOMAIN result.runs : result.runs[j].id = nodes[k].id

\* C28 amended: on an eager graph a node is registered and made producer
\* before its verification runs and stays so when the verification raises; a
\* later graph.verify() hands it to schedule() with the other nodes and, when
\* schedule() returns, runs do_verify() on the nodes in the scheduled order up
\* to the first that raises, the nodes that raised at construction included.
C28_RegisteredFirst ==
    /\ RegisteredBeforeVerification
    /\ (IsVerify /\ early_verify) =>
          /\ SeqToSet(Ids(result.before)) = 1..Len(result.before)
          /\ ~result.scheduled => result.runs = <<>>
          /\ result.scheduled =>
                /\ RunIds = SubSeq(Ids(result.order), 1, Len(result.runs))
                /\ \A j \in 1..(Len(result.runs) - 1) : result.runs[j].err = "none"
                /\ Len(result.runs) < Len(result.order) =>
                      /\ result.runs # <<>>
                      /\ result.runs[Len(result.runs)].err # "none"
                /\ \A k \in DOMAIN nodes :
                      nodes[k].id \notin verified =>
                          \/ \E j \in DOMAIN result.runs :
                                result.runs[j].id = nodes[k].id
                          \/ \E j \in DOMAIN result.runs :
                                /\ result.runs[j].err # "none"
                                /\ Pos(result.order, result.runs[j].id) < k

\* A node raised InvalidFormatError at its construction on an eager graph
\* (its input has no shape), stayed producer of its output, and the later
\* verify() ran its do_verify() again, after another node's.
C28_Witness ==
    /\ IsVerify /\ early_verify /\ result.scheduled /\ Len(result.runs) = 2
    /\ result.runs[1].err = "none"
    /\ result.runs[2].id \notin verified
    /\ result.runs[2].unresolved /\ result.runs[2].err = InvalidFormat
    /\ LET n == nodes[Pos(nodes, result.runs[2].id)]
       IN  \A k \in DOMAIN Writes(n) : img[Writes(n)[k]].producer = n.id


\* ------------------------------------------------------------- schedule(), step by step
\* schedule() has not begun its first pass
AtStart == sched.pc = "while" /\ sched.passes = 0

\* The first pass of schedule() is over
FirstPassOver == sched.passes > 1 \/ (sched.passes = 1 /\ sched.pc # "for")

\* Some node of the graph has image d as an output or an inout
Written(d) == \E k \in DOMAIN nodes : d \in SeqToSet(Writes(nodes[k]))

AllInputs(n, P(_)) == \A i \in DOMAIN n.inputs : P(n.inputs[i])

NonVirtual(d) == ~img[d].virtual

Unwritten(d) == ~img[d].virtual /\ ~Written(d)

\* C22 as stated: when schedule() starts an image of the graph is available
\* if and only if it is non-virtual, whether or not a node writes it, and a
\* node all of whose inputs are non-virtual is scheduled in the first pass.
C22_NonVirtualAvailable ==
    /\ AtStart => \A d \in GraphImages(nodes) : sched.present[d] <=> ~img[d].virtual
    /\ FirstPassOver =>
          \A k \in DOMAIN nodes :
              AllInputs(nodes[k], NonVirtual) => sched.passof[nodes[k].id] = 1

\* C22 amended: when schedule() starts an image of the graph is available if
\* and only if it is non-virtual and no node of the graph has it as an
\* output or a bidirectional parameter; a node all of whose inputs are such
\* images is scheduled in the first pass.
C22_InitialAvailability ==
    /\ AtStart =>
          \A d \in GraphImages(nodes) :
              sched.present[d] <=> (~img[d].virtual /\ ~Written(d))
    /\ FirstPassOver =>
          \A k \in DOMAIN nodes :
              AllInputs(nodes[k], Unwritten) => sched.passof[nodes[k].id] = 1

\* The first pass is over; it scheduled a node that reads a non-virtual
\* image no node writes and left a node that reads a non-virtual image
\* another node writes for the second pass.
C22_Witness ==
    /\ FirstPassOver /\ sched.pc = "returned"
    /\ \E k \in DOMAIN nodes :
          /\ AllInputs(nodes[k], Unwritten) /\ sched.passof[nodes[k].id] = 1
    /\ \E k \in DOMAIN nodes :
          /\ AllInputs(nodes[k], NonVirtual) /\ ~AllInputs(nodes[k], Unwritten)
          /\ sched.passof[nodes[k].id] = 2

\* C23 as stated: schedule() raises CyclicGraph only when the graph has a
\* dependency cycle or an unscheduled node reads an image that has no
\* producer; an acyclic graph in which every virtual input has a producer
\* (as output or as bidirectional parameter) is scheduled completely; and
\* an image is available once its producer is scheduled.
C23_SchedulerComplete ==
    /\ sched.pc = "raised" =>
          \/ Cyclic(nodes, TRUE)
          \/ \E k \in DOMAIN sched.worklist : \E i \in DOMAIN sched.worklist[k].inputs :
                LET d == sched.worklist[k].inputs[i]
                IN  img[d].virtual /\ img[d].producer = NoNode
    /\ (sched.pc \in {"returned", "raised"} /\ ~Cyclic(nodes, TRUE)
            /\ \A k \in DOMAIN nodes : \A i \in DOMAIN nodes[k].inputs :
                  img[nodes[k].inputs[i]].virtual
                      => img[nodes[k].inputs[i]].producer # NoNode)
          => sched.pc = "returned" /\ Len(sched.inorder) = Len(nodes)
    /\ \A k \in DOMAIN sched.inorder : \A i \in DOMAIN Writes(sched.inorder[k]) :
          LET d == Writes(sched.inorder[k])[i]
          IN  img[d].producer = sched.inorder[k].id => sched.present[d]

\* Node a stands before node b in the schedule built so far
Before(a, b) == Pos(sched.inorder, a) < Pos(sched.inorder, b)

\* Every node comes after the nodes that write its inputs
TopologicalInsertion ==
    \A k \in DOMAIN nodes : \A j \in DOMAIN nodes :
        Feeds(nodes, j, k, TRUE) => j < k

\* Every input of every node is available when schedule() starts or is an
\* output of a node inserted earlier
OutputOrdered ==
    \A k \in DOMAIN nodes : \A i \in DOMAIN nodes[k].inputs :
        \/ Unwritten(nodes[k].inputs[i])
        \/ \E j \in 1..(k - 1) : nodes[k].inputs[i] \in SeqToSet(nodes[j].outputs)

C26_Terminates ==
    /\ [](sched.passes <= Len(nodes))
    /\ [][(sched.pc = "for" /\ sched'.pc = "while")
              => Len(sched'.worklist) < Len(sched.worklist)]_vars
    /\ <>(sched.pc \in {"returned", "raised"})

\* schedule() returned after as many passes as the graph has nodes.
C26_Witness ==
    /\ sched.pc = "returned" /\ Len(nodes) = 3 /\ sched.passes = 3
    /\ Ids(sched.inorder) = <<3, 2, 1>>


\* ------------------------------------------------------------- process()
\* The output is resolved to the shape and format of the input
OutputResolved ==
    /\ img[ProcOut].width = ProcDim /\ img[ProcOut].height = ProcDim
    /\ img[ProcOut].color = "U8"
    /\ DOMAIN proc.out = 0..(ProcDim * ProcDim - 1)

====
